---- MODULE Spec2Model ----
(***************************************************************************)
(* Channel Feed (src/src/App.tsx): the content aggregation and caching     *)
(* engine of the App component.  The React state of the component, the     *)
(* persisted localStorage entries and the suspended async handlers         *)
(* (addChannel, fetchVideos) are the state; every handler is an action.    *)
(*                                                                         *)
(* Specifications of the module:                                           *)
(*   Spec          the application (registry, feed, cache, watched set,    *)
(*                 handlers)                                               *)
(*   SpecBatch     the batched detail lookup of fetchChannelVideos, one    *)
(*                 request per step, with identifier lists longer than a   *)
(*                 batch                                                   *)
(*   SpecClassify  the per-item duration classification of                 *)
(*                 fetchChannelVideos on a domain of duration codes        *)
(*   SpecMerge     the merge of addChannel (composite-key map, then sort)  *)
(*                 on a domain of feeds and item lists                     *)
(*   SpecOrch      one call of fetchChannelVideos on a domain of channel   *)
(*                 records, settings and upstream responses                *)
(*   SpecLimit     one call of fetchChannelVideos against upstream pages   *)
(*                 as long as the requested maxResults allow               *)
(*   SpecToggle    calls of toggleWatchedVideo and the renders that apply  *)
(*                 their queued updates                                    *)
(*   SpecLive      Spec with the fairness of the upstream: every awaited   *)
(*                 call of a refresh returns or fails                      *)
(***************************************************************************)
EXTENDS Integers, Sequences, FiniteSets, TLC

VARIABLES
    channels,              \* useState<Channel[]>            (App.tsx:67)
    videos,                \* useState<(Video|CommunityPost)[]> (App.tsx:76)
    cache,                 \* localStorage 'cachedVideos'     (App.tsx:77,148)
    apiKey,                \* useState apiKey                 (App.tsx:90)
    fetchSettings,         \* useState<FetchSettings>         (App.tsx:95)
    isLoadingVideos,       \* useState isLoadingVideos        (App.tsx:88)
    watchedVideos,         \* useState<Set<string>>          (App.tsx:110)
    showSettingsDropdown,  \* useState showSettingsDropdown   (App.tsx:92)
    now,                   \* Date.now()
    refresh,               \* the suspended fetchVideos call, if any
    adds,                  \* the suspended addChannel calls
    events,                \* number of user events handled so far
    last,                  \* the handler the last user event ran
    batch,                 \* SpecBatch: the detail-lookup loop
    cls,                   \* SpecClassify: one item under classification
    mrg,                   \* SpecMerge: one merge and its repetition
    orch,                  \* SpecOrch: one call of fetchChannelVideos
    tgl                    \* SpecToggle: the watched set and its queued updates

vars == <<channels, videos, cache, apiKey, fetchSettings, isLoadingVideos,
          watchedVideos, showSettingsDropdown, now, refresh, adds, events, last,
          batch, cls, mrg, orch, tgl>>

appVars == <<channels, videos, cache, apiKey, fetchSettings, isLoadingVideos,
             watchedVideos, showSettingsDropdown, now, refresh, adds, events, last>>

-----------------------------------------------------------------------------
(* Bounds of the model *)

MaxEvents == 2        \* user events (clicks, reloads) in one behaviour
MaxRaw == 2           \* entries in one upstream playlist / activity page
MaxIds == 101         \* SpecBatch: longest identifier list
MaxFeed == 2          \* SpecMerge: items in the feed before the merge
MaxNew == 2           \* SpecMerge: items in the merged list
MaxCalls == 2         \* SpecOrch: calls of fetchChannelVideos for the channel
MaxToggles == 2       \* SpecToggle: calls of toggleWatchedVideo

(* Program constants *)

\* 24 * 60 * 60 * 1000 ms (App.tsx:81).  The model's clock counts whole
\* seconds: a year of milliseconds is beyond the 32-bit integers of TLC.
DayMs == 24 * 60 * 60
batchSize == 50                   \* App.tsx:232
ShortLimit == 60                  \* App.tsx:269

-----------------------------------------------------------------------------
(* Small helpers *)

Min(a, b) == IF a < b THEN a ELSE b

Range(s) == {s[i] : i \in 1..Len(s)}

SeqsUpTo(S, n) == UNION {[1..k -> S] : k \in 0..n}

\* Array.prototype.slice(i, j) on a 0-based array held as a 1-based sequence
Slice(s, i, j) == SubSeq(s, i + 1, Min(j, Len(s)))

-----------------------------------------------------------------------------
(* Duration codes.  A code is the string the upstream returns in            *)
(* contentDetails.duration, held as its sequence of tokens: a letter, or a  *)
(* maximal run of digits with its value.                                    *)

L(c) == [k |-> c, v |-> 0]
N(n) == [k |-> "#", v |-> n]

NoPart == -1

\* The ISO 8601 code of d days, h hours, m minutes, s seconds; an absent
\* component is NoPart.  "P1DT2H", "PT1H2M3S", "PT45S", "P0D", ...
EncodeDuration(d, h, m, s) ==
    <<L("P")>>
    \o (IF d # NoPart THEN <<N(d), L("D")>> ELSE <<>>)
    \o (IF h # NoPart \/ m # NoPart \/ s # NoPart THEN <<L("T")>> ELSE <<>>)
    \o (IF h # NoPart THEN <<N(h), L("H")>> ELSE <<>>)
    \o (IF m # NoPart THEN <<N(m), L("M")>> ELSE <<>>)
    \o (IF s # NoPart THEN <<N(s), L("S")>> ELSE <<>>)

Part(x) == IF x = NoPart THEN 0 ELSE x

\* The duration a well-formed code encodes, in seconds
EncodedSeconds(d, h, m, s) ==
    Part(d) * 86400 + Part(h) * 3600 + Part(m) * 60 + Part(s)

\* durationStr.match(/PT(?:(\d+)M)?(?:(\d+)S)?/): the leftmost "PT", then an
\* optional digit run followed by M, then an optional digit run followed by
\* S.  The result is <<matched, group 1, group 2>>; an absent group is
\* NoPart.
IsAt(str, i, c) == i <= Len(str) /\ str[i].k = c

PTPositions(str) == {i \in 1..Len(str) : IsAt(str, i, "P") /\ IsAt(str, i + 1, "T")}

FirstPT(str) == CHOOSE i \in PTPositions(str) : \A j \in PTPositions(str) : i <= j

DurationMatch(str) ==
    IF PTPositions(str) = {}
    THEN [matched |-> FALSE, g1 |-> NoPart, g2 |-> NoPart]
    ELSE LET p == FirstPT(str) + 2
             hasM == IsAt(str, p, "#") /\ IsAt(str, p + 1, "M")
             q == IF hasM THEN p + 2 ELSE p
             hasS == IsAt(str, q, "#") /\ IsAt(str, q + 1, "S")
         IN [matched |-> TRUE,
             g1 |-> IF hasM THEN str[p].v ELSE NoPart,
             g2 |-> IF hasS THEN str[q].v ELSE NoPart]

\* parseInt(match?.[n] || '0')
GroupInt(g) == IF g = NoPart THEN 0 ELSE g

\* The absent videoId / the absent entry of videoDurations
NoId == ""
NoDuration == <<>>

\* fetchChannelVideos, lines 256-274: the type and the duration label of
\* one playlist entry.  durationStr is videoDurations[videoId], NoDuration
\* when the map has no entry.
ClassifyItem(videoId, durationStr) ==
    IF videoId # NoId /\ durationStr # NoDuration
    THEN LET match == DurationMatch(durationStr)
             minutes == GroupInt(match.g1)
             seconds == GroupInt(match.g2)
             totalSeconds == minutes * 60 + seconds
         IN IF totalSeconds <= ShortLimit
            THEN [type |-> "shorts", duration |-> "Short"]
            ELSE [type |-> "longForm", duration |-> "Video"]
    ELSE [type |-> "longForm", duration |-> "Video"]

-----------------------------------------------------------------------------
(* The feed: composite key, merge and sort *)

\* buildVideoKey
buildVideoKey(item) == item.type \o "-" \o item.channelId \o "-" \o item.id

\* new Date(item.publishedAt).getTime()
Time(item) == item.publishedAt

\* Array.prototype.sort with (a, b) => time(b) - time(a): stable, descending
RECURSIVE InsertDesc(_, _)
InsertDesc(sorted, x) ==
    IF sorted = <<>> THEN <<x>>
    ELSE IF Time(Head(sorted)) >= Time(x)
         THEN <<Head(sorted)>> \o InsertDesc(Tail(sorted), x)
         ELSE <<x>> \o sorted

RECURSIVE SortDescFrom(_, _)
SortDescFrom(acc, rest) ==
    IF rest = <<>> THEN acc
    ELSE SortDescFrom(InsertDesc(acc, Head(rest)), Tail(rest))

SortByPublished_None(s) == s

SortByPublished(s) == SortDescFrom(<<>>, s)

MapSet_Append(m, item) == Append(m, item)

MapSet_KeepOld(m, item) ==
    IF \E i \in 1..Len(m) : buildVideoKey(m[i]) = buildVideoKey(item)
    THEN m
    ELSE Append(m, item)

\* Map.prototype.set on a Map held as its entries in insertion order: an
\* existing key keeps its place and takes the new value, a new key goes last
MapSet(m, item) ==
    IF \E i \in 1..Len(m) : buildVideoKey(m[i]) = buildVideoKey(item)
    THEN [i \in 1..Len(m) |->
             IF buildVideoKey(m[i]) = buildVideoKey(item) THEN item ELSE m[i]]
    ELSE Append(m, item)

RECURSIVE MapSetAll(_, _)
MapSetAll(m, items) ==
    IF items = <<>> THEN m
    ELSE MapSetAll(MapSet(m, Head(items)), Tail(items))

\* addChannel, lines 382-389: the updater passed to setVideos
MergeVideos(prev, newVideos) ==
    SortByPublished(MapSetAll(MapSetAll(<<>>, prev), newVideos))

-----------------------------------------------------------------------------
(* The upstream API.  A response is [ok |-> FALSE] when the request or the  *)
(* parse of its body fails (fetch rejects, response.json() throws), and     *)
(* carries the parsed body otherwise.                                       *)

Failed == [ok |-> FALSE]

ChannelIds == {"A", "B"}
VideoIds == {"v"}
PubTimes == {0, 1}
ContentTypes == {"longForm", "shorts", "community"}

PT45S == EncodeDuration(NoPart, NoPart, NoPart, 45)
PT5M == EncodeDuration(NoPart, NoPart, 5, NoPart)

\* channels?part=contentDetails: relatedPlaylists.uploads, "" when absent
LookupResponses == {Failed} \cup {[ok |-> TRUE, uploads |-> u] : u \in {"", "UU"}}

\* playlistItems?part=snippet: items[].snippet.{resourceId.videoId, publishedAt}
RawEntries == [videoId : VideoIds, publishedAt : PubTimes]

PlaylistResponses ==
    {Failed} \cup {[ok |-> TRUE, items |-> s] : s \in SeqsUpTo(RawEntries, MaxRaw)}

\* videos?part=contentDetails: for each identifier of U the duration code
\* the body carries for it, NoDuration when it carries none
DetailResponses(U) ==
    {Failed} \cup {[ok |-> TRUE, durations |-> f] : f \in [U -> {NoDuration, PT45S, PT5M}]}

\* activities?part=snippet: items[].{id, snippet.{type, description, publishedAt}}.
\* A description is held as its first 50 characters and the rest.
NoText == [head |-> "", tail |-> ""]
Descriptions == {NoText, [head |-> "v", tail |-> ""]}
ActivityEntries ==
    [id : {"a"}, type : {"community", "upload"}, description : Descriptions,
     publishedAt : PubTimes]

ActivityResponses ==
    {Failed} \cup {[ok |-> TRUE, items |-> s] : s \in SeqsUpTo(ActivityEntries, MaxRaw - 1)}

\* A response that is never requested
Unasked == [ok |-> TRUE]

\* The ids an item of the feed can carry: a videoId, the head of a
\* description, the id of an activity
ItemIds == VideoIds \cup {d.head : d \in Descriptions \ {NoText}} \cup {"a"}

-----------------------------------------------------------------------------
(* fetchChannelVideos *)

\* lines 195-196: cutoffDate, from the time of the call
CutoffDate(t, settings) == t - settings.timeRangeDays * DayMs

VideoInWindow_Strict(publishedAt, t, settings) ==
    ~(settings.timeRangeDays # 0 /\ publishedAt <= CutoffDate(t, settings))

\* line 252: a playlist entry is kept
VideoInWindow(publishedAt, t, settings) ==
    ~(settings.timeRangeDays # 0 /\ publishedAt < CutoffDate(t, settings))

\* line 305: a community post is kept
PostInWindow(publishedAt, t, settings) ==
    settings.timeRangeDays = 0 \/ publishedAt >= CutoffDate(t, settings)

\* lines 225-227: the identifiers of the playlist entries
RECURSIVE VideoIdsOf(_)
VideoIdsOf(items) ==
    IF items = <<>> THEN <<>>
    ELSE (IF Head(items).videoId # NoId THEN <<Head(items).videoId>> ELSE <<>>)
         \o VideoIdsOf(Tail(items))

\* lines 239-243: one response of the detail lookup stored into videoDurations
StoreDurations(videoDurations, batchIds, resp) ==
    [id \in DOMAIN videoDurations |->
        IF id \in Range(batchIds) /\ id \in DOMAIN resp.durations
           /\ resp.durations[id] # NoDuration
        THEN resp.durations[id]
        ELSE videoDurations[id]]

\* lines 233-244: the loop over the batches, from offset i.  resps[n] is the
\* response to the n-th request.  A failed request throws out of the loop.
RECURSIVE FetchDurations(_, _, _, _, _)
FetchDurations(videoIds, i, n, resps, videoDurations) ==
    IF i < Len(videoIds)
    THEN IF resps[n].ok
         THEN FetchDurations(videoIds, i + batchSize, n + 1, resps,
                  StoreDurations(videoDurations, Slice(videoIds, i, i + batchSize), resps[n]))
         ELSE [threw |-> TRUE, videoDurations |-> videoDurations, requests |-> n]
    ELSE [threw |-> FALSE, videoDurations |-> videoDurations, requests |-> n - 1]

\* The number of requests the loop makes when none fails
RECURSIVE BatchCount(_, _)
BatchCount(i, len) == IF i < len THEN 1 + BatchCount(i + batchSize, len) ELSE 0

\* lines 247-291: the items built from the playlist entries
RECURSIVE BuildVideos(_, _, _, _, _)
BuildVideos(items, videoDurations, channel, t, settings) ==
    IF items = <<>> THEN <<>>
    ELSE LET snippet == Head(items)
             rest == BuildVideos(Tail(items), videoDurations, channel, t, settings)
             durationStr == IF snippet.videoId = NoId THEN NoDuration
                            ELSE videoDurations[snippet.videoId]
             c == ClassifyItem(snippet.videoId, durationStr)
         IN IF ~VideoInWindow(snippet.publishedAt, t, settings) THEN rest
            ELSE IF channel.contentTypes[c.type]
                 THEN <<[type |-> c.type, channelId |-> channel.id,
                         id |-> snippet.videoId, publishedAt |-> snippet.publishedAt,
                         duration |-> c.duration]>> \o rest
                 ELSE rest

\* line 307: item.snippet.description?.substring(0, 50) || item.id
PostId(entry) == IF entry.description.head # "" THEN entry.description.head ELSE entry.id

\* line 308: item.snippet.description || 'Community post'
PostContent(entry) ==
    IF entry.description = NoText THEN "Community post"
    ELSE entry.description.head \o entry.description.tail

\* lines 301-317: the items built from the activity entries
RECURSIVE BuildPosts(_, _, _, _)
BuildPosts(items, channel, t, settings) ==
    IF items = <<>> THEN <<>>
    ELSE LET item == Head(items)
             rest == BuildPosts(Tail(items), channel, t, settings)
         IN IF item.type = "community" /\ PostInWindow(item.publishedAt, t, settings)
            THEN <<[type |-> "community", channelId |-> channel.id, id |-> PostId(item),
                    content |-> PostContent(item),
                    publishedAt |-> item.publishedAt]>> \o rest
            ELSE rest

NeedsLookup_Always(channel) == TRUE

\* line 200: !uploadsPlaylistId
NeedsLookup(channel) == channel.uploadsPlaylistId = ""

\* lines 199-206: the upload-feed identifier the call works with
UploadsOf(channel, lookupR) ==
    IF NeedsLookup(channel)
    THEN (IF lookupR.ok THEN lookupR.uploads ELSE "")
    ELSE channel.uploadsPlaylistId

WantsVideos_Always(channel, uploads) == uploads # ""

\* line 216
WantsVideos(channel, uploads) ==
    uploads # "" /\ (channel.contentTypes.longForm \/ channel.contentTypes.shorts)

\* fetchChannelVideos(channel), called at time t with the apiKey and the
\* fetchSettings of its closure, against the given upstream responses:
\*   threw    an exception left the call (no item is returned)
\*   items    the returned channelVideos
\*   cached   the identifier handed to setChannels at line 210, "" if none
\*   needKey  requestApiKey was called
\*   calls    the upstream requests made, in order
Orchestrate(channel, key, settings, t, lookupR, playlistR, detailRs, activityR) ==
    LET none == [threw |-> FALSE, items |-> <<>>, cached |-> "", needKey |-> FALSE,
                 calls |-> <<>>]
    IN
    IF key = "" THEN [none EXCEPT !.needKey = TRUE]
    ELSE
    LET lookupCalls == IF NeedsLookup(channel) THEN <<"channels">> ELSE <<>>
        uploads == UploadsOf(channel, lookupR)
        cached == IF NeedsLookup(channel) THEN uploads ELSE ""
    IN
    IF NeedsLookup(channel) /\ ~lookupR.ok
    THEN [none EXCEPT !.threw = TRUE, !.calls = lookupCalls]
    ELSE
    LET wants == WantsVideos(channel, uploads)
        listCalls == IF wants THEN lookupCalls \o <<"playlistItems">> ELSE lookupCalls
    IN
    IF wants /\ ~playlistR.ok
    THEN [none EXCEPT !.threw = TRUE, !.cached = cached, !.calls = listCalls]
    ELSE
    LET entries == IF wants THEN playlistR.items ELSE <<>>
        videoIds == VideoIdsOf(entries)
        fetched == FetchDurations(videoIds, 0, 1, detailRs,
                                  [id \in Range(videoIds) |-> NoDuration])
        detailCalls == listCalls \o [n \in 1..fetched.requests |-> "videos"]
    IN
    IF fetched.threw
    THEN [none EXCEPT !.threw = TRUE, !.cached = cached, !.calls = detailCalls]
    ELSE
    LET vids == BuildVideos(entries, fetched.videoDurations, channel, t, settings)
        allCalls == IF channel.contentTypes.community
                    THEN detailCalls \o <<"activities">> ELSE detailCalls
    IN
    IF channel.contentTypes.community /\ ~activityR.ok
    THEN [none EXCEPT !.threw = TRUE, !.cached = cached, !.calls = allCalls]
    ELSE [threw |-> FALSE,
          items |-> vids \o (IF channel.contentTypes.community
                             THEN BuildPosts(activityR.items, channel, t, settings)
                             ELSE <<>>),
          cached |-> cached, needKey |-> FALSE, calls |-> allCalls]

\* The responses one call of fetchChannelVideos can meet: only the requests
\* the call makes have a response.
LookupChoices(channel) ==
    IF NeedsLookup(channel) THEN LookupResponses ELSE {Unasked}

\* line 216 is reached and its condition holds
AsksPlaylist(channel, lookupR) ==
    (NeedsLookup(channel) => lookupR.ok) /\ WantsVideos(channel, UploadsOf(channel, lookupR))

PlaylistChoices(channel, lookupR) ==
    IF AsksPlaylist(channel, lookupR) THEN PlaylistResponses ELSE {Unasked}

DetailChoices(playlistR) ==
    IF playlistR = Unasked \/ ~playlistR.ok THEN {<<>>}
    ELSE LET videoIds == VideoIdsOf(playlistR.items)
         IN [1..BatchCount(0, Len(videoIds)) -> DetailResponses(Range(videoIds))]

ActivityChoices(channel) ==
    IF channel.contentTypes.community THEN ActivityResponses ELSE {Unasked}

\* lines 210-212: the updater passed to setChannels
CacheUploads(prev, channelId, uploads) ==
    IF uploads = "" THEN prev
    ELSE [i \in 1..Len(prev) |->
            IF prev[i].id = channelId
            THEN [prev[i] EXCEPT !.uploadsPlaylistId = uploads] ELSE prev[i]]

-----------------------------------------------------------------------------
(* The application: state after the mount of App, from what an earlier      *)
(* session may have left in localStorage.                                   *)

NoCache == [stored |-> FALSE]
\* No fetchVideos call is suspended; outs keeps what each channel of the last
\* finished call returned
Idle == [pc |-> "idle", outs |-> <<>>]

Instants == {0, 1, DayMs + 1}
TimeRangeChoices == {0, 1}         \* of TIME_RANGE_OPTIONS, App.tsx:49-56
DefaultSettings == [maxVideosPerChannel |-> 10, timeRangeDays |-> 30]

NoBatch == [pc |-> "off"]
NoCls == [pc |-> "off"]
NoMerge == [pc |-> "off"]
NoOrch == [pc |-> "off"]
NoToggle == [pc |-> "off"]

\* The registries a session can start from: nothing saved, or two channels
\* saved by an earlier session with their upload-feed identifiers
InitRegistries ==
    {<<>>,
     <<[id |-> "A", uploadsPlaylistId |-> "UU",
        contentTypes |-> [longForm |-> TRUE, shorts |-> TRUE, community |-> FALSE]],
       [id |-> "B", uploadsPlaylistId |-> "UU",
        contentTypes |-> [longForm |-> TRUE, shorts |-> TRUE, community |-> FALSE]]>>}

CacheEffect_Always(prevCache, v, t) ==
    [stored |-> TRUE, videos |-> v, timestamp |-> t]

\* useEffect on [videos], lines 146-153: what 'cachedVideos' holds after the
\* effect has run for the feed v
CacheEffect(prevCache, v, t) ==
    IF Len(v) > 0 THEN [stored |-> TRUE, videos |-> v, timestamp |-> t]
    ELSE prevCache

ReadCache_Geq(c, t) ==
    IF c.stored
    THEN (IF c.timestamp >= t - DayMs THEN c.videos ELSE <<>>)
    ELSE <<>>

\* useState initializer of videos, lines 76-87
ReadCache(c, t) ==
    IF c.stored
    THEN LET oneDayAgo == t - DayMs
         IN IF c.timestamp > oneDayAgo THEN c.videos ELSE <<>>
    ELSE <<>>

\* An item an earlier session fetched from channel B
SavedItem ==
    [type |-> "longForm", channelId |-> "B", id |-> "v", publishedAt |-> 0,
     duration |-> "Video"]

\* What a session can start from: one of the registries with no feed stored
\* and nothing watched, or channel B alone with its feed stored a moment ago
\* and an item watched that the feed no longer carries
InitSessions ==
    {[channels |-> r, videos |-> <<>>, watchedVideos |-> {}] : r \in InitRegistries}
    \cup {[channels |-> <<[id |-> "B", uploadsPlaylistId |-> "UU",
                          contentTypes |-> [longForm |-> TRUE, shorts |-> TRUE,
                                            community |-> FALSE]]>>,
           videos |-> <<SavedItem>>, watchedVideos |-> {"w"}]}

Init ==
    /\ \E s \in InitSessions :
         /\ channels = s.channels
         /\ videos = s.videos
         /\ watchedVideos = s.watchedVideos
    /\ cache = CacheEffect(NoCache, videos, 0)
    /\ apiKey \in {"", "k"}
    /\ fetchSettings = DefaultSettings
    /\ isLoadingVideos = FALSE
    /\ showSettingsDropdown = FALSE
    /\ now = 0
    /\ refresh = Idle
    /\ adds = <<>>
    /\ events = 0
    /\ last = "mount"
    /\ batch = NoBatch
    /\ cls = NoCls
    /\ mrg = NoMerge
    /\ orch = NoOrch
    /\ tgl = NoToggle

requestApiKey_Keep(shown) == shown

\* requestApiKey, line 180: setShowSettingsDropdown(true)
requestApiKey(shown) == TRUE

UserEvent(handler) == events < MaxEvents /\ events' = events + 1 /\ last' = handler

Without(s, k) == [i \in 1..(Len(s) - 1) |-> IF i < k THEN s[i] ELSE s[i + 1]]

\* addChannel, lines 350-358: the handler up to its first await.  The
\* closure keeps the channels, apiKey and fetchSettings of the render.  The
\* button belongs to a result of an earlier search (line 617), which stays
\* on the page when the credential is changed afterwards; the request of
\* line 356 is sent with whatever apiKey holds.
AddChannelStart(channelId) ==
    /\ UserEvent("addChannel")
    /\ adds' = Append(adds, [pc |-> "lookup", id |-> channelId,
                             known |-> {channels[i].id : i \in 1..Len(channels)},
                             key |-> apiKey, settings |-> fetchSettings])
    /\ UNCHANGED <<channels, videos, cache, apiKey, fetchSettings, isLoadingVideos,
                   showSettingsDropdown, now, refresh,
                   watchedVideos, batch, cls, mrg, orch, tgl>>

\* lines 365-375
NewChannel(channelId, uploadsPlaylistId) ==
    [id |-> channelId, uploadsPlaylistId |-> uploadsPlaylistId,
     contentTypes |-> [longForm |-> TRUE, shorts |-> TRUE, community |-> FALSE]]

\* line 376
AlreadyAdded(known, channelId) == channelId \in known

\* addChannel, lines 376-397: what the caller's promise settles to.  No
\* branch throws, returns a value or sets an error state: with or without
\* alreadyAdded the promise resolves with undefined.
AddChannelOutcome(alreadyAdded) == "resolved"

\* addChannel, lines 359-380: the lookup returns (or fails, which is caught),
\* the channel is appended unless the closure's channels hold it, and
\* fetchChannelVideos is called.
AddChannelLookupDone(k) ==
    /\ k \in 1..Len(adds)
    /\ adds[k].pc = "lookup"
    /\ \E r \in LookupResponses :
         LET a == adds[k]
             newChannel == NewChannel(a.id, IF r.ok THEN r.uploads ELSE "")
         IN IF AlreadyAdded(a.known, a.id)
            THEN /\ adds' = Without(adds, k)
                 /\ UNCHANGED <<channels, showSettingsDropdown>>
            ELSE /\ channels' = Append(channels, newChannel)
                 /\ IF a.key = ""
                    THEN /\ showSettingsDropdown' = requestApiKey(showSettingsDropdown)
                         /\ adds' = Without(adds, k)
                    ELSE /\ adds' = [adds EXCEPT ![k] =
                                [pc |-> "fetch", channel |-> newChannel, key |-> a.key,
                                 settings |-> a.settings, t |-> now]]
                         /\ UNCHANGED showSettingsDropdown
    /\ UNCHANGED <<videos, cache, apiKey, fetchSettings, isLoadingVideos, now,
                   refresh, events, last,
                   watchedVideos, batch, cls, mrg, orch, tgl>>

\* addChannel, lines 380-396: fetchChannelVideos returns or throws (caught);
\* a non-empty result is merged into the feed.
AddChannelFetchDone(k) ==
    /\ k \in 1..Len(adds)
    /\ adds[k].pc = "fetch"
    /\ LET a == adds[k] IN
       \E lookupR \in LookupChoices(a.channel) :
       \E playlistR \in PlaylistChoices(a.channel, lookupR) :
       \E detailRs \in DetailChoices(playlistR) :
       \E activityR \in ActivityChoices(a.channel) :
       \E out \in {Orchestrate(a.channel, a.key, a.settings, a.t,
                                lookupR, playlistR, detailRs, activityR)} :
         LET newVideos == IF out.threw THEN <<>> ELSE out.items
         IN /\ channels' = CacheUploads(channels, a.channel.id, out.cached)
            /\ IF Len(newVideos) > 0
               THEN /\ videos' = MergeVideos(videos, newVideos)
                    /\ cache' = CacheEffect(cache, videos', now)
               ELSE UNCHANGED <<videos, cache>>
    /\ adds' = Without(adds, k)
    /\ UNCHANGED <<apiKey, fetchSettings, isLoadingVideos, showSettingsDropdown, now,
                   refresh, events, last,
                   watchedVideos, batch, cls, mrg, orch, tgl>>

\* removeChannel
RemoveChannel(channelId) ==
    /\ UserEvent("removeChannel")
    /\ \E i \in 1..Len(channels) : channels[i].id = channelId
    /\ channels' = SelectSeq(channels, LAMBDA c : c.id # channelId)
    /\ UNCHANGED <<videos, cache, apiKey, fetchSettings, isLoadingVideos,
                   showSettingsDropdown, now, refresh, adds,
                   watchedVideos, batch, cls, mrg, orch, tgl>>

\* updateContentType, from the checkbox of entry i
UpdateContentType(i, contentType) ==
    /\ UserEvent("updateContentType")
    /\ i \in 1..Len(channels)
    /\ LET enabled == ~channels[i].contentTypes[contentType]
       IN channels' = [j \in 1..Len(channels) |->
                         IF channels[j].id = channels[i].id
                         THEN [channels[j] EXCEPT !.contentTypes[contentType] = enabled]
                         ELSE channels[j]]
    /\ UNCHANGED <<videos, cache, apiKey, fetchSettings, isLoadingVideos,
                   showSettingsDropdown, now, refresh, adds,
                   watchedVideos, batch, cls, mrg, orch, tgl>>

\* handleApiKeyChange
SetApiKey(value) ==
    /\ UserEvent("handleApiKeyChange")
    /\ value # apiKey
    /\ apiKey' = value
    /\ UNCHANGED <<channels, videos, cache, fetchSettings, isLoadingVideos,
                   showSettingsDropdown, now, refresh, adds,
                   watchedVideos, batch, cls, mrg, orch, tgl>>

\* the onChange of the time range select, line 561
SetTimeRange(days) ==
    /\ UserEvent("setFetchSettings")
    /\ days # fetchSettings.timeRangeDays
    /\ fetchSettings' = [fetchSettings EXCEPT !.timeRangeDays = days]
    /\ UNCHANGED <<channels, videos, cache, apiKey, isLoadingVideos,
                   showSettingsDropdown, now, refresh, adds,
                   watchedVideos, batch, cls, mrg, orch, tgl>>

Collect_Abort(allVideos, out) ==
    IF out.threw THEN <<>> ELSE allVideos \o out.items

\* fetchVideos, lines 438-443: one turn of the loop, with its try/catch
Collect(allVideos, out) ==
    IF out.threw THEN allVideos ELSE allVideos \o out.items

Escapes_Uncaught(out) == out.threw

\* fetchVideos, lines 438-443: the call of fetchChannelVideos is awaited
\* inside try/catch, and the catch only logs: no exception of the call
\* leaves fetchVideos
Escapes(out) == FALSE

RefreshEnabled_Always == TRUE

\* The refresh button, line 575: disabled={isLoadingVideos}
RefreshEnabled == ~isLoadingVideos

\* fetchVideos, lines 428-439, from the refresh button: the handler up to
\* its first await
FetchVideosStart ==
    /\ UserEvent("fetchVideos")
    /\ RefreshEnabled
    /\ IF Len(channels) = 0
       THEN UNCHANGED <<isLoadingVideos, showSettingsDropdown, refresh>>
       ELSE IF apiKey = ""
            THEN /\ showSettingsDropdown' = requestApiKey(showSettingsDropdown)
                 /\ UNCHANGED <<isLoadingVideos, refresh>>
            ELSE /\ isLoadingVideos' = TRUE
                 /\ refresh' = [pc |-> "running", channels |-> channels, i |-> 1,
                                allVideos |-> <<>>, key |-> apiKey,
                                settings |-> fetchSettings, t |-> now, outs |-> <<>>]
                 /\ UNCHANGED showSettingsDropdown
    /\ UNCHANGED <<channels, videos, cache, apiKey, fetchSettings, now, adds,
                   watchedVideos, batch, cls, mrg, orch, tgl>>

\* fetchVideos, lines 437-448: fetchChannelVideos returns or throws for the
\* channel in turn; after the last channel the feed is replaced.
FetchVideosChannelDone ==
    /\ refresh.pc = "running"
    /\ LET channel == refresh.channels[refresh.i] IN
       \E lookupR \in LookupChoices(channel) :
       \E playlistR \in PlaylistChoices(channel, lookupR) :
       \E detailRs \in DetailChoices(playlistR) :
       \E activityR \in ActivityChoices(channel) :
       \E out \in {Orchestrate(channel, refresh.key, refresh.settings, refresh.t,
                                lookupR, playlistR, detailRs, activityR)} :
         LET allVideos == Collect(refresh.allVideos, out)
             outs == Append(refresh.outs, [threw |-> out.threw, items |-> out.items])
         IN /\ channels' = CacheUploads(channels, channel.id, out.cached)
            /\ IF Escapes(out)
               THEN /\ refresh' = [pc |-> "idle", outs |-> outs]
                    /\ UNCHANGED <<videos, cache, isLoadingVideos>>
               ELSE IF refresh.i < Len(refresh.channels)
               THEN /\ refresh' = [refresh EXCEPT !.i = refresh.i + 1,
                                       !.allVideos = allVideos, !.t = now,
                                       !.outs = outs]
                    /\ UNCHANGED <<videos, cache, isLoadingVideos>>
               ELSE /\ videos' = SortByPublished(allVideos)
                    /\ cache' = CacheEffect(cache, videos', now)
                    /\ isLoadingVideos' = FALSE
                    /\ refresh' = [pc |-> "idle", outs |-> outs]
    /\ UNCHANGED <<apiKey, fetchSettings, showSettingsDropdown, now, adds, events,
                   last,
                   watchedVideos, batch, cls, mrg, orch, tgl>>

ToggleWatched_AddOnly(prev, videoId) == prev \cup {videoId}

ToggleWatched_Reset(prev, videoId) ==
    IF videoId \in prev THEN prev \ {videoId} ELSE {videoId}

\* toggleWatchedVideo, lines 157-165: the updater passed to setWatchedVideos
ToggleWatched(prev, videoId) ==
    IF videoId \in prev THEN prev \ {videoId} ELSE prev \cup {videoId}

\* The ids whose watched toggle is on the page (lines 711-798): the items of
\* the feed that belong to a channel of the registry, once loading is over
ToggleIds ==
    IF isLoadingVideos THEN {}
    ELSE {videos[i].id : i \in {j \in 1..Len(videos) :
                                  \E c \in 1..Len(channels) :
                                      channels[c].id = videos[j].channelId}}

\* toggleWatchedVideo
ToggleWatchedVideo(videoId) ==
    /\ UserEvent("toggleWatchedVideo")
    /\ videoId \in ToggleIds
    /\ watchedVideos' = ToggleWatched(watchedVideos, videoId)
    /\ UNCHANGED <<channels, videos, cache, apiKey, fetchSettings, isLoadingVideos,
                   showSettingsDropdown, now, refresh, adds, batch, cls, mrg, orch, tgl>>

\* The effect of lines 141-143: JSON.stringify([...watchedVideos]), the ids
\* of the set as an array
SaveWatched(set) ==
    CHOOSE arr \in [1..Cardinality(set) -> set] : Range(arr) = set

\* useState initializer of watchedVideos, lines 110-113: new Set(JSON.parse(saved))
ReadWatched(arr) == Range(arr)

\* A new session: the page is loaded again.  Suspended handlers are gone,
\* the state is read back from localStorage (lines 67-98) and the effects
\* run once on mount (lines 129-153).
Reload ==
    /\ UserEvent("reload")
    /\ videos' = ReadCache(cache, now)
    /\ cache' = CacheEffect(cache, videos', now)
    /\ isLoadingVideos' = FALSE
    /\ showSettingsDropdown' = FALSE
    /\ refresh' = Idle
    /\ adds' = <<>>
    /\ watchedVideos' = ReadWatched(SaveWatched(watchedVideos))
    /\ UNCHANGED <<channels, apiKey, fetchSettings, now, batch, cls, mrg, orch, tgl>>

\* Time passes
Tick ==
    /\ \E t \in Instants : t > now /\ now' = t
    /\ UNCHANGED <<channels, videos, cache, apiKey, fetchSettings, isLoadingVideos,
                   showSettingsDropdown, refresh, adds, events, last,
                   watchedVideos, batch, cls, mrg, orch, tgl>>

Next ==
    \/ \E c \in ChannelIds : AddChannelStart(c)
    \/ \E k \in 1..MaxEvents : AddChannelLookupDone(k)
    \/ \E k \in 1..MaxEvents : AddChannelFetchDone(k)
    \/ \E c \in ChannelIds : RemoveChannel(c)
    \/ \E i \in 1..MaxEvents, ct \in ContentTypes : UpdateContentType(i, ct)
    \/ \E v \in {"", "k"} : SetApiKey(v)
    \/ \E d \in TimeRangeChoices : SetTimeRange(d)
    \/ FetchVideosStart
    \/ FetchVideosChannelDone
    \/ \E v \in ItemIds : ToggleWatchedVideo(v)
    \/ Reload
    \/ Tick

Spec == Init /\ [][Next]_vars

\* The application with an upstream that answers: the call a suspended
\* fetchVideos awaits returns or fails, so the step that resumes it is taken
SpecLive == Spec /\ WF_vars(FetchVideosChannelDone)

-----------------------------------------------------------------------------
(* SpecBatch: the detail lookup of fetchChannelVideos (lines 225-245) one   *)
(* request at a time, followed by the classification of every entry         *)
(* (lines 247-291, all entries inside the time window, all kinds enabled).  *)

AppOff ==
    /\ watchedVideos = {}
    /\ channels = <<>>
    /\ videos = <<>>
    /\ cache = NoCache
    /\ apiKey = "k"
    /\ fetchSettings = DefaultSettings
    /\ isLoadingVideos = FALSE
    /\ showSettingsDropdown = FALSE
    /\ now = 0
    /\ refresh = Idle
    /\ adds = <<>>
    /\ events = 0
    /\ last = "mount"

\* The identifiers "1" .. "n"
IdList(n) == [k \in 1..n |-> ToString(k)]

\* The responses to the request for batchIds: a failure, or a body that
\* carries the same duration code (or none) for every identifier asked
BatchResponses(batchIds) ==
    {Failed} \cup {[ok |-> TRUE, durations |-> [id \in Range(batchIds) |-> c]] :
                      c \in {NoDuration, PT45S, PT5M}}

InitBatch ==
    /\ AppOff
    /\ tgl = NoToggle
    /\ cls = NoCls
    /\ mrg = NoMerge
    /\ orch = NoOrch
    /\ \E n \in 0..MaxIds :
         batch = [pc |-> "loop", videoIds |-> IdList(n), i |-> 0,
                  videoDurations |-> [id \in Range(IdList(n)) |-> NoDuration],
                  requests |-> <<>>, failed |-> {}, emitted |-> <<>>]

\* lines 233-244: one iteration of the loop.  A failed request throws: the
\* exception leaves fetchChannelVideos and the caller's catch (lines 391,
\* 441) drops the channel's items.
BatchRequest ==
    /\ batch.pc = "loop"
    /\ batch.i < Len(batch.videoIds)
    /\ LET batchIds == Slice(batch.videoIds, batch.i, batch.i + batchSize) IN
       \E resp \in BatchResponses(batchIds) :
         IF resp.ok
         THEN batch' = [batch EXCEPT
                  !.videoDurations = StoreDurations(batch.videoDurations, batchIds, resp),
                  !.i = batch.i + batchSize,
                  !.requests = Append(batch.requests, batchIds)]
         ELSE batch' = [batch EXCEPT
                  !.pc = "aborted",
                  !.requests = Append(batch.requests, batchIds),
                  !.failed = Range(batchIds)]
    /\ UNCHANGED appVars
    /\ UNCHANGED <<cls, mrg, orch, tgl>>

\* lines 247-291 after the loop: every entry is classified and emitted
BatchEmit ==
    /\ batch.pc = "loop"
    /\ ~(batch.i < Len(batch.videoIds))
    /\ batch' = [batch EXCEPT
           !.pc = "returned",
           !.emitted = [k \in 1..Len(batch.videoIds) |->
                          [id |-> batch.videoIds[k],
                           type |-> ClassifyItem(batch.videoIds[k],
                                       batch.videoDurations[batch.videoIds[k]]).type]]]
    /\ UNCHANGED appVars
    /\ UNCHANGED <<cls, mrg, orch, tgl>>

NextBatch == BatchRequest \/ BatchEmit

SpecBatch == InitBatch /\ [][NextBatch]_vars

-----------------------------------------------------------------------------
(* SpecClassify: lines 256-274 on one playlist entry *)

PartsD == {NoPart, 1}
PartsH == {NoPart, 0, 1}
PartsM == {NoPart, 0, 1, 2}
PartsS == {NoPart, 0, 59, 60, 61}

\* Non-empty strings that are no duration code: "X", "90", "T5M"
Unparseable == {<<L("X")>>, <<N(90)>>, <<L("T"), N(5), L("M")>>}

InitClassify ==
    /\ AppOff
    /\ tgl = NoToggle
    /\ batch = NoBatch
    /\ mrg = NoMerge
    /\ orch = NoOrch
    /\ \/ \E d \in PartsD, h \in PartsH, m \in PartsM, s \in PartsS :
            /\ ~(d = NoPart /\ h = NoPart /\ m = NoPart /\ s = NoPart)
            /\ cls = [pc |-> "entry", kind |-> "wellFormed", videoId |-> "v",
                      durationStr |-> EncodeDuration(d, h, m, s),
                      encoded |-> EncodedSeconds(d, h, m, s)]
       \/ \E str \in Unparseable :
            cls = [pc |-> "entry", kind |-> "unparseable", videoId |-> "v",
                   durationStr |-> str, encoded |-> 0]
       \/ \E id \in {NoId, "v"} :
            cls = [pc |-> "entry", kind |-> "unknown", videoId |-> id,
                   durationStr |-> NoDuration, encoded |-> 0]
       \/ \E str \in {PT45S, PT5M} :
            cls = [pc |-> "entry", kind |-> "unknown", videoId |-> NoId,
                   durationStr |-> str, encoded |-> 0]

Classify ==
    /\ cls.pc = "entry"
    /\ cls' = [pc |-> "classified", kind |-> cls.kind, videoId |-> cls.videoId,
               durationStr |-> cls.durationStr, encoded |-> cls.encoded,
               result |-> ClassifyItem(cls.videoId, cls.durationStr)]
    /\ UNCHANGED appVars
    /\ UNCHANGED <<batch, mrg, orch, tgl>>

NextClassify == Classify

SpecClassify == InitClassify /\ [][NextClassify]_vars

-----------------------------------------------------------------------------
(* SpecMerge: the updater of lines 382-389 applied to a feed and a list of  *)
(* new items, and applied again to its own result.                          *)

\* Items as fetchChannelVideos builds them (lines 279-289, 306-314): videos
\* and posts of two channels under one id, posts with two texts that share
\* their first 50 characters
MergeItems ==
    {[type |-> "longForm", channelId |-> c, id |-> "v", publishedAt |-> p,
      duration |-> "Video"] : c \in ChannelIds, p \in PubTimes}
    \cup {[type |-> "community", channelId |-> c, id |-> "v", content |-> t,
           publishedAt |-> p] : c \in ChannelIds, t \in {"v", "vx"}, p \in PubTimes}

\* The feeds the merge can meet: sorted as every writer of the feed leaves
\* them, with or without repeated keys
MergeFeeds ==
    {f \in SeqsUpTo(MergeItems, MaxFeed) :
        \A i \in 1..(Len(f) - 1) : Time(f[i]) >= Time(f[i + 1])}

\* line 381: the updater runs for a non-empty list only
MergeLists == SeqsUpTo(MergeItems, MaxNew) \ {<<>>}

InitMerge ==
    /\ AppOff
    /\ tgl = NoToggle
    /\ batch = NoBatch
    /\ cls = NoCls
    /\ orch = NoOrch
    /\ \E prev \in MergeFeeds, newVideos \in MergeLists :
         mrg = [pc |-> "ready", prev |-> prev, newVideos |-> newVideos]

\* setVideos(prev => ...) with the feed prev
MergeOnce ==
    /\ mrg.pc = "ready"
    /\ mrg' = [pc |-> "once", prev |-> mrg.prev, newVideos |-> mrg.newVideos,
               once |-> MergeVideos(mrg.prev, mrg.newVideos)]
    /\ UNCHANGED appVars
    /\ UNCHANGED <<batch, cls, orch, tgl>>

\* the same updater, with the same list, on the feed it returned
MergeAgain ==
    /\ mrg.pc = "once"
    /\ mrg' = [pc |-> "twice", prev |-> mrg.prev, newVideos |-> mrg.newVideos,
               once |-> mrg.once, twice |-> MergeVideos(mrg.once, mrg.newVideos)]
    /\ UNCHANGED appVars
    /\ UNCHANGED <<batch, cls, orch, tgl>>

NextMerge == MergeOnce \/ MergeAgain

SpecMerge == InitMerge /\ [][NextMerge]_vars

-----------------------------------------------------------------------------
(* SpecOrch: a call of fetchChannelVideos (lines 187-322) for a channel     *)
(* record of a two-channel registry, with the responses it received kept,   *)
(* and later calls for the record the registry then holds.                  *)

OrchVideoIds == {"v", "w"}

OrchPlaylistResponses ==
    {Failed} \cup {[ok |-> TRUE, items |-> s] :
                     s \in SeqsUpTo([videoId : OrchVideoIds, publishedAt : PubTimes], MaxRaw)}

\* The channel records the call can be handed: the identifier of the upload
\* feed cached or not, every combination of preferences
OrchChannels ==
    [id : {"A"}, uploadsPlaylistId : {"", "UU"},
     contentTypes : [longForm : BOOLEAN, shorts : BOOLEAN, community : BOOLEAN]]

\* The other channel of the registry
OtherChannel == NewChannel("B", "")

InitOrch ==
    /\ AppOff
    /\ tgl = NoToggle
    /\ batch = NoBatch
    /\ cls = NoCls
    /\ mrg = NoMerge
    /\ \E channel \in OrchChannels, key \in {"", "k"}, days \in TimeRangeChoices,
          t \in Instants :
         orch = [pc |-> "called", channel |-> channel,
                 registry |-> <<channel, OtherChannel>>, key |-> key,
                 settings |-> [DefaultSettings EXCEPT !.timeRangeDays = days],
                 t |-> t, before |-> <<>>]

\* fetchChannelVideos(channel) runs to its return or to its exception
OrchReturn ==
    /\ orch.pc = "called"
    /\ \E lookupR \in IF orch.key = "" THEN {Unasked} ELSE LookupChoices(orch.channel) :
       \E playlistR \in IF orch.key # "" /\ AsksPlaylist(orch.channel, lookupR)
                        THEN OrchPlaylistResponses ELSE {Unasked} :
       \E detailRs \in DetailChoices(playlistR) :
       \E activityR \in IF orch.key = "" THEN {Unasked} ELSE ActivityChoices(orch.channel) :
       \E out \in {Orchestrate(orch.channel, orch.key, orch.settings, orch.t,
                                lookupR, playlistR, detailRs, activityR)} :
         /\ activityR # Unasked =>
               \E n \in 1..Len(out.calls) : out.calls[n] = "activities"
         /\ orch' = [pc |-> "returned", channel |-> orch.channel,
                     registry |-> CacheUploads(orch.registry, orch.channel.id, out.cached),
                     key |-> orch.key, settings |-> orch.settings, t |-> orch.t,
                     before |-> orch.before, lookupR |-> lookupR, playlistR |-> playlistR,
                     detailRs |-> detailRs, activityR |-> activityR, out |-> out]
    /\ UNCHANGED appVars
    /\ UNCHANGED <<batch, cls, mrg, tgl>>

\* A later call for the same channel, handed the record of the registry
\* (fetchVideos line 439 in a later render).  Of the call before, the record
\* it was handed and the answer to its lookup are kept.
OrchAgain ==
    /\ orch.pc = "returned"
    /\ Len(orch.before) < MaxCalls - 1
    /\ orch' = [pc |-> "called", channel |-> orch.registry[1],
                registry |-> orch.registry, key |-> orch.key,
                settings |-> orch.settings, t |-> orch.t,
                before |-> Append(orch.before,
                              [channel |-> orch.channel, lookupR |-> orch.lookupR])]
    /\ UNCHANGED appVars
    /\ UNCHANGED <<batch, cls, mrg, tgl>>

NextOrch == OrchReturn \/ OrchAgain

SpecOrch == InitOrch /\ [][NextOrch]_vars

-----------------------------------------------------------------------------
(* SpecLimit: a call of fetchChannelVideos (lines 187-322) against upstream  *)
(* pages as long as the maxResults of its requests allow.                   *)

\* of MAX_VIDEOS_OPTIONS, lines 58-64
MaxVideosChoices == {5, 10}

\* line 219: maxResults of the playlistItems request
PlaylistMaxResults(settings) == settings.maxVideosPerChannel * 2

\* line 297: maxResults of the activities request
ActivityMaxResults(settings) == settings.maxVideosPerChannel

\* A playlist page of n entries "1" .. "n", all published at p
PlaylistPage(n, p) ==
    [ok |-> TRUE, items |-> [k \in 1..n |-> [videoId |-> ToString(k), publishedAt |-> p]]]

\* An activity page of m community posts without description, published at p
ActivityPage(m, p) ==
    [ok |-> TRUE,
     items |-> [k \in 1..m |-> [id |-> ToString(k), type |-> "community",
                                description |-> NoText, publishedAt |-> p]]]

InitLimit ==
    /\ AppOff
    /\ tgl = NoToggle
    /\ batch = NoBatch
    /\ cls = NoCls
    /\ mrg = NoMerge
    /\ \E channel \in {c \in OrchChannels : c.uploadsPlaylistId # ""},
          maxVideos \in MaxVideosChoices, days \in TimeRangeChoices :
         orch = [pc |-> "called", channel |-> channel,
                 registry |-> <<channel, OtherChannel>>, key |-> "k",
                 settings |-> [maxVideosPerChannel |-> maxVideos, timeRangeDays |-> days],
                 t |-> 1, before |-> <<>>]

\* fetchChannelVideos(channel) runs to its return: the upstream answers each
\* request with a page of at most maxResults entries
LimitReturn ==
    /\ orch.pc = "called"
    /\ \E n \in 0..PlaylistMaxResults(orch.settings), m \in 0..ActivityMaxResults(orch.settings),
          p \in PubTimes, code \in {NoDuration, PT45S, PT5M} :
       \E playlistR \in {IF AsksPlaylist(orch.channel, Unasked)
                         THEN PlaylistPage(n, p) ELSE Unasked} :
       \E detailRs \in {IF playlistR # Unasked /\ n > 0
                        THEN <<[ok |-> TRUE,
                                durations |-> [id \in Range(VideoIdsOf(playlistR.items)) |-> code]]>>
                        ELSE <<>>} :
       \E activityR \in {IF orch.channel.contentTypes.community
                         THEN ActivityPage(m, p) ELSE Unasked} :
       \E out \in {Orchestrate(orch.channel, orch.key, orch.settings, orch.t,
                                Unasked, playlistR, detailRs, activityR)} :
         orch' = [pc |-> "returned", channel |-> orch.channel,
                  registry |-> CacheUploads(orch.registry, orch.channel.id, out.cached),
                  key |-> orch.key, settings |-> orch.settings, t |-> orch.t,
                  before |-> orch.before, lookupR |-> Unasked, playlistR |-> playlistR,
                  detailRs |-> detailRs, activityR |-> activityR, out |-> out]
    /\ UNCHANGED appVars
    /\ UNCHANGED <<batch, cls, mrg, tgl>>

NextLimit == LimitReturn

SpecLimit == InitLimit /\ [][NextLimit]_vars

-----------------------------------------------------------------------------
(* SpecToggle: toggleWatchedVideo (lines 155-166) hands React an updater;   *)
(* React queues the updaters of the calls made before it renders and, at    *)
(* the render, applies them in order, each to the result of the one before. *)

ToggleDomain == {"v", "w", "a"}

\* The updaters of the queue applied in the order of the calls
RECURSIVE ApplyUpdaters(_, _)
ApplyUpdaters(prev, queue) ==
    IF queue = <<>> THEN prev
    ELSE ApplyUpdaters(ToggleWatched(prev, Head(queue)), Tail(queue))

InitToggle ==
    /\ AppOff
    /\ batch = NoBatch
    /\ cls = NoCls
    /\ mrg = NoMerge
    /\ orch = NoOrch
    /\ \E initial \in SUBSET ToggleDomain :
         tgl = [pc |-> "on", initial |-> initial, watchedVideos |-> initial,
                queue |-> <<>>, calls |-> <<>>, renders |-> 0]

\* toggleWatchedVideo(videoId): setWatchedVideos(prev => ...) queues the updater
ToggleCall(videoId) ==
    /\ tgl.pc = "on"
    /\ Len(tgl.calls) < MaxToggles
    /\ tgl' = [tgl EXCEPT !.queue = Append(tgl.queue, videoId),
                          !.calls = Append(tgl.calls, videoId)]
    /\ UNCHANGED appVars
    /\ UNCHANGED <<batch, cls, mrg, orch>>

\* The render that follows: the queue is applied to the state
ToggleRender ==
    /\ tgl.pc = "on"
    /\ tgl.queue # <<>>
    /\ tgl' = [tgl EXCEPT !.watchedVideos = ApplyUpdaters(tgl.watchedVideos, tgl.queue),
                          !.queue = <<>>,
                          !.renders = tgl.renders + 1]
    /\ UNCHANGED appVars
    /\ UNCHANGED <<batch, cls, mrg, orch>>

NextToggle == (\E v \in ToggleDomain : ToggleCall(v)) \/ ToggleRender

SpecToggle == InitToggle /\ [][NextToggle]_vars

-----------------------------------------------------------------------------
(* Properties *)

CompositeKey(item) == <<item.type, item.channelId, item.id>>

Count(s, x) == Cardinality({i \in 1..Len(s) : s[i] = x})

SameItems(s, t) ==
    /\ Len(s) = Len(t)
    /\ \A x \in Range(s) \cup Range(t) : Count(s, x) = Count(t, x)

RECURSIVE Flatten(_)
Flatten(ss) == IF ss = <<>> THEN <<>> ELSE Head(ss) \o Flatten(Tail(ss))

\* A step in which a suspended fetchVideos call runs to its end
RefreshFinishes ==
    refresh.pc = "running" /\ refresh'.pc = "idle" /\ events' = events

\* C1: in every reachable state no two items of the feed share the same
\* composite key (kind, channelId, id).
C1_UniqueCompositeKeys ==
    \A i, j \in 1..Len(videos) :
        i # j => CompositeKey(videos[i]) # CompositeKey(videos[j])

\* C2: the feed is non-increasing in published timestamp, after the merge of
\* an added channel and after a full refresh, whatever the order of the
\* channels and of the upstream entries.
C2_FeedSortedDescending ==
    \A i \in 1..(Len(videos) - 1) :
        videos[i].publishedAt >= videos[i + 1].publishedAt

\* C2 witness: the feed holds an item of the channel refreshed second ahead
\* of an older item of the channel refreshed first.
C2_Witness ==
    /\ refresh.pc = "idle"
    /\ Len(refresh.outs) = 2
    /\ \E i, j \in 1..Len(videos) :
         /\ i < j
         /\ videos[i].channelId = "B" /\ videos[j].channelId = "A"
         /\ videos[i].publishedAt > videos[j].publishedAt

\* C3: when the orchestration of a channel throws during a refresh, the
\* refresh still completes (the loading flag is cleared) and the feed is
\* made of exactly the items the other channels returned: the failing
\* channel contributes nothing and takes nothing away.
C3_FailingChannelIsolated ==
    [][RefreshFinishes =>
          /\ isLoadingVideos' = FALSE
          /\ SameItems(videos',
                 Flatten([k \in 1..Len(refresh'.outs) |->
                            IF refresh'.outs[k].threw THEN <<>>
                            ELSE refresh'.outs[k].items]))]_vars

\* C3 witness: a refresh of two channels has finished, the first channel
\* threw, the second returned items, and the feed holds exactly those.
C3_Witness ==
    /\ refresh.pc = "idle"
    /\ Len(refresh.outs) = 2
    /\ refresh.outs[1].threw
    /\ ~refresh.outs[2].threw
    /\ Len(refresh.outs[2].items) = 2
    /\ ~isLoadingVideos
    /\ Len(videos) = 2
    /\ \A i \in 1..Len(videos) : videos[i].channelId = "B"

\* C4: a failed request of the batched detail lookup aborts neither the
\* remaining batches nor the channel: the call returns, and the entries of
\* the failed batch are emitted as long-form.
C4_FailedBatchTolerated ==
    batch.pc # "off" /\ batch.failed # {} =>
        /\ batch.pc # "aborted"
        /\ batch.pc = "returned" =>
              \A id \in batch.failed :
                  \E k \in 1..Len(batch.emitted) :
                      batch.emitted[k] = [id |-> id, type |-> "longForm"]

\* C5: for N identifiers the detail lookup makes exactly ceil(N/50)
\* requests, each of at most 50 identifiers, and every identifier is sent in
\* exactly one request.
C5_CeilBatches ==
    batch.pc \in {"returned", "aborted"} =>
        /\ Len(batch.requests) = (Len(batch.videoIds) + 49) \div 50
        /\ \A r \in 1..Len(batch.requests) : Len(batch.requests[r]) <= 50
        /\ \A k \in 1..Len(batch.videoIds) :
              Cardinality({r \in 1..Len(batch.requests) :
                              batch.videoIds[k] \in Range(batch.requests[r])}) = 1

\* C6: a well-formed duration code is classified short-form when it encodes
\* at most 60 seconds and long-form when it encodes more, hours and days
\* included.
C6_ClassifiedByEncodedSeconds ==
    cls.pc = "classified" /\ cls.kind = "wellFormed" =>
        (cls.result.type = "shorts" <=> cls.encoded <= 60)

\* C7: an entry whose duration is unknown (no entry in the map, or no item
\* id) or unparseable is long-form with the generic duration label.
C7_UnknownIsLongForm ==
    cls.pc = "classified" /\ cls.kind \in {"unknown", "unparseable"} =>
        cls.result = [type |-> "longForm", duration |-> "Video"]

\* C8: the persisted feed is never overwritten by an empty snapshot: a step
\* that leaves the feed empty (a refresh in which every channel fails or
\* yields nothing) and a refresh that is short-circuited leave the persisted
\* snapshot and its capture timestamp as they were, and whatever is written
\* is a non-empty snapshot.
C8_CacheNeverEmptied ==
    [][/\ videos' = <<>> => cache' = cache
       /\ FetchVideosStart => cache' = cache
       /\ cache' # cache => cache'.stored /\ Len(cache'.videos) > 0]_vars

\* C8 witness: a refresh has finished in which no channel returned an item,
\* the feed is empty and the snapshot persisted before is still there.
C8_Witness ==
    /\ refresh.pc = "idle"
    /\ Len(refresh.outs) = 2
    /\ \A k \in 1..2 : refresh.outs[k].threw \/ refresh.outs[k].items = <<>>
    /\ refresh.outs[1].threw
    /\ videos = <<>>
    /\ cache.stored
    /\ Len(cache.videos) > 0
    /\ cache.timestamp < now

\* C9: a session starts with the stored snapshot when its capture timestamp
\* is strictly less than 24 hours old, and with an empty feed when it is 24
\* hours old or older, or when nothing is stored.
C9_ReadFreshCacheOnly ==
    [][Reload =>
          videos' = IF cache.stored /\ now - cache.timestamp < DayMs
                    THEN cache.videos ELSE <<>>]_vars

\* C9 witness: a session has started exactly 24 hours after the capture of
\* a stored snapshot, with an empty feed.
C9_Witness ==
    /\ last = "reload"
    /\ cache.stored
    /\ now - cache.timestamp = DayMs
    /\ videos = <<>>

\* C10: the registry holds at most one entry per channel identifier, also
\* when add is invoked again before an earlier add has finished its lookup.
C10_RegistryUnique ==
    \A i, j \in 1..Len(channels) : i # j => channels[i].id # channels[j].id

\* A step in which fetchVideos returns: a suspended call runs to its end,
\* or a call on an empty registry returns at once (line 429)
RefreshReturns ==
    RefreshFinishes \/ (FetchVideosStart /\ Len(channels) = 0)

\* C11: once a full refresh has completed, every item of the feed belongs
\* to a channel of the registry and has a kind enabled for that channel:
\* what was removed or disabled since has disappeared, also when the
\* registry has become empty.
C11_RefreshReplacesFeed ==
    [][RefreshReturns =>
          \A i \in 1..Len(videos') :
              \E c \in 1..Len(channels') :
                  /\ channels'[c].id = videos'[i].channelId
                  /\ channels'[c].contentTypes[videos'[i].type]]_vars

\* C12: merging the same list of new items into a feed twice gives the
\* feed that merging it once gives, element for element and in the same
\* order.
C12_MergeIdempotent ==
    mrg.pc = "twice" => mrg.twice = mrg.once

\* C12 witness: a list that overwrites an item of the feed with other data
\* and brings a new one has been merged twice, with the same result.
C12_Witness ==
    /\ mrg.pc = "twice"
    /\ Len(mrg.prev) = 2
    /\ Len(mrg.newVideos) = 2
    /\ \E i \in 1..2, j \in 1..2 :
         /\ CompositeKey(mrg.newVideos[i]) = CompositeKey(mrg.prev[j])
         /\ mrg.newVideos[i] # mrg.prev[j]
    /\ \E i \in 1..2 :
         \A j \in 1..2 : CompositeKey(mrg.newVideos[i]) # CompositeKey(mrg.prev[j])
    /\ Len(mrg.once) = 3
    /\ mrg.twice = mrg.once

\* The items merged, oldest first: the feed, then the new list
Merged == mrg.prev \o mrg.newVideos

\* The last item of s that has the composite key k
LastWithKey(s, k) ==
    s[CHOOSE i \in 1..Len(s) :
          /\ CompositeKey(s[i]) = k
          /\ \A j \in (i + 1)..Len(s) : CompositeKey(s[j]) # k]

\* C13: after the merge every composite key (kind, channelId, id) among the
\* merged items has exactly one item in the feed, the one merged last, in
\* the feed and in the new list alike; items whose keys differ (same id,
\* another kind or channel) are all kept.
C13_LastMergedSurvives ==
    mrg.pc \in {"once", "twice"} =>
        /\ \A n \in 1..Len(Merged) :
              Cardinality({i \in 1..Len(mrg.once) :
                  CompositeKey(mrg.once[i]) = CompositeKey(Merged[n])}) = 1
        /\ \A i \in 1..Len(mrg.once) :
              /\ \E n \in 1..Len(Merged) :
                    CompositeKey(Merged[n]) = CompositeKey(mrg.once[i])
              /\ mrg.once[i] = LastWithKey(Merged, CompositeKey(mrg.once[i]))

\* C13 witness: the new list brings two items under the key of an item of
\* the feed, each with other data; the feed also holds an item with the
\* same id and another kind.  The last of the list is in the result, next to
\* the item of the other kind.
C13_Witness ==
    /\ mrg.pc = "once"
    /\ Len(mrg.prev) = 2
    /\ Len(mrg.newVideos) = 2
    /\ CompositeKey(mrg.prev[1]) = CompositeKey(mrg.newVideos[1])
    /\ CompositeKey(mrg.newVideos[1]) = CompositeKey(mrg.newVideos[2])
    /\ mrg.prev[1] # mrg.newVideos[1]
    /\ mrg.newVideos[1] # mrg.newVideos[2]
    /\ mrg.prev[1] # mrg.newVideos[2]
    /\ mrg.prev[2].id = mrg.prev[1].id
    /\ mrg.prev[2].channelId = mrg.prev[1].channelId
    /\ mrg.prev[2].type # mrg.prev[1].type
    /\ Len(mrg.once) = 2
    /\ \E i \in 1..2 : mrg.once[i] = mrg.newVideos[2]
    /\ \E i \in 1..2 : mrg.once[i] = mrg.prev[2]

\* The time window of the settings: every timestamp when timeRangeDays is 0,
\* otherwise the timestamps not before t minus timeRangeDays days
Admitted(publishedAt, t, settings) ==
    \/ settings.timeRangeDays = 0
    \/ publishedAt >= t - settings.timeRangeDays * 86400

Videos(items) == SelectSeq(items, LAMBDA x : x.type # "community")
Posts(items) == SelectSeq(items, LAMBDA x : x.type = "community")
Stamps(items) == [i \in 1..Len(items) |-> items[i].publishedAt]

\* The call has returned its items (with a credential, without exception)
OrchReturned == orch.pc = "returned" /\ orch.key # "" /\ ~orch.out.threw

\* C14: with timeRangeDays = 0 every entry is admitted, whatever its
\* timestamp; with timeRangeDays = N > 0 the entries published before the
\* time of the call minus N days are excluded and an entry published exactly
\* then is admitted; videos and posts follow the same rule.
C14_TimeWindow ==
    OrchReturned =>
        /\ (orch.playlistR # Unasked /\ orch.channel.contentTypes.longForm
               /\ orch.channel.contentTypes.shorts) =>
              Stamps(Videos(orch.out.items)) =
                  Stamps(SelectSeq(orch.playlistR.items,
                      LAMBDA e : Admitted(e.publishedAt, orch.t, orch.settings)))
        /\ orch.channel.contentTypes.community =>
              Stamps(Posts(orch.out.items)) =
                  Stamps(SelectSeq(orch.activityR.items,
                      LAMBDA e : e.type = "community"
                                 /\ Admitted(e.publishedAt, orch.t, orch.settings)))

\* C14 witness: one day of window, a video and a post published exactly one
\* day before the call are returned, a video published a second earlier is
\* not.
C14_Witness ==
    /\ OrchReturned
    /\ orch.settings.timeRangeDays = 1
    /\ orch.t = 86400 + 1
    /\ orch.channel.contentTypes = [longForm |-> TRUE, shorts |-> TRUE, community |-> TRUE]
    /\ orch.playlistR # Unasked
    /\ Stamps(orch.playlistR.items) = <<0, 1>>
    /\ Stamps(orch.activityR.items) = <<1>>
    /\ Len(orch.out.items) = 2
    /\ orch.out.items[1].type # "community" /\ orch.out.items[1].publishedAt = 1
    /\ orch.out.items[2].type = "community" /\ orch.out.items[2].publishedAt = 1

\* The lookups of the upload-feed identifier among the requests of a call
Lookups(calls) == Cardinality({n \in 1..Len(calls) : calls[n] = "channels"})

\* C16: a call handed a channel record with the identifier of the upload
\* feed cached makes no lookup and leaves the identifier as it is; a call
\* handed a record without it makes exactly one lookup, and the registry's
\* record takes the identifier only when the lookup returned a non-empty
\* one, so that a later call looks it up again after an empty or failed
\* lookup.  The record of the other channel is never touched.
C16_UploadsResolvedOnce ==
    orch.pc = "returned" /\ orch.key # "" =>
        /\ Lookups(orch.out.calls) = IF orch.channel.uploadsPlaylistId # "" THEN 0 ELSE 1
        /\ orch.registry[1].uploadsPlaylistId =
              IF orch.channel.uploadsPlaylistId # "" THEN orch.channel.uploadsPlaylistId
              ELSE IF orch.lookupR.ok THEN orch.lookupR.uploads ELSE ""
        /\ orch.registry[1].id = orch.channel.id
        /\ orch.registry[1].contentTypes = orch.channel.contentTypes
        /\ orch.registry[2] = OtherChannel
        /\ \A n \in 1..Len(orch.before) :
              orch.before[n].channel.uploadsPlaylistId # "" =>
                  orch.registry[1].uploadsPlaylistId = orch.before[n].channel.uploadsPlaylistId

\* C16 witness: the first call looked the identifier up and got none, the
\* registry kept the record without it, and the later call looked it up
\* again, got it and cached it.
C16_Witness ==
    /\ orch.pc = "returned"
    /\ orch.key # ""
    /\ Len(orch.before) = 1
    /\ orch.before[1].channel.uploadsPlaylistId = ""
    /\ orch.before[1].lookupR = [ok |-> TRUE, uploads |-> ""]
    /\ orch.channel.uploadsPlaylistId = ""
    /\ Lookups(orch.out.calls) = 1
    /\ orch.lookupR = [ok |-> TRUE, uploads |-> "UU"]
    /\ orch.registry[1].uploadsPlaylistId = "UU"

\* The duration code the detail lookup returned for an entry
DurationOf(e) == orch.detailRs[1].durations[e.videoId]

\* C18: every returned item has a kind the channel's preferences enable and
\* a timestamp inside the window; with long-form and short-form on and
\* community off, a 45-second entry and a 300-second entry inside the window
\* are returned as one short-form and one long-form item; with long-form and
\* short-form both off neither the feed listing nor the detail lookup is
\* requested.
C18_EnabledKindsInWindow ==
    orch.pc = "returned" =>
        /\ \A i \in 1..Len(orch.out.items) :
              /\ orch.channel.contentTypes[orch.out.items[i].type]
              /\ Admitted(orch.out.items[i].publishedAt, orch.t, orch.settings)
        /\ (/\ OrchReturned
            /\ orch.channel.contentTypes =
                  [longForm |-> TRUE, shorts |-> TRUE, community |-> FALSE]
            /\ orch.playlistR # Unasked
            /\ Len(orch.playlistR.items) = 2
            /\ orch.playlistR.items[1].videoId # orch.playlistR.items[2].videoId
            /\ \A n \in 1..2 :
                  Admitted(orch.playlistR.items[n].publishedAt, orch.t, orch.settings)
            /\ DurationOf(orch.playlistR.items[1]) = PT45S
            /\ DurationOf(orch.playlistR.items[2]) = PT5M)
           => /\ Len(orch.out.items) = 2
              /\ orch.out.items[1].type = "shorts"
              /\ orch.out.items[1].id = orch.playlistR.items[1].videoId
              /\ orch.out.items[2].type = "longForm"
              /\ orch.out.items[2].id = orch.playlistR.items[2].videoId
        /\ (~orch.channel.contentTypes.longForm /\ ~orch.channel.contentTypes.shorts) =>
              \A n \in 1..Len(orch.out.calls) :
                  orch.out.calls[n] \notin {"playlistItems", "videos"}

\* C18 witness: the scenario has happened (a 45-second and a 300-second
\* entry inside a one-day window, community off), and both items are
\* returned.
C18_Witness ==
    /\ OrchReturned
    /\ orch.channel.contentTypes = [longForm |-> TRUE, shorts |-> TRUE, community |-> FALSE]
    /\ orch.settings.timeRangeDays = 1
    /\ orch.playlistR # Unasked
    /\ Len(orch.playlistR.items) = 2
    /\ orch.playlistR.items[1].videoId = "v"
    /\ orch.playlistR.items[2].videoId = "w"
    /\ DurationOf(orch.playlistR.items[1]) = PT45S
    /\ DurationOf(orch.playlistR.items[2]) = PT5M
    /\ Len(orch.out.items) = 2
    /\ orch.out.items[1].type = "shorts"
    /\ orch.out.items[2].type = "longForm"

\* What a call of fetchVideos without credential must do: start no request,
\* raise the signal, leave the feed, the registry and the snapshot alone
RefreshShortCircuits ==
    /\ refresh' = refresh
    /\ isLoadingVideos' = isLoadingVideos
    /\ showSettingsDropdown' = TRUE
    /\ videos' = videos
    /\ channels' = channels
    /\ cache' = cache

\* The same for the call of fetchChannelVideos that addChannel makes for the
\* channel it has just appended to the registry (line 378): no request is
\* left pending and the registry holds that append and nothing else
AddShortCircuits(k) ==
    /\ Len(adds') = Len(adds) - 1
    /\ \A n \in 1..Len(adds') : adds'[n].pc = "fetch" => adds'[n] \in Range(adds)
    /\ showSettingsDropdown' = TRUE
    /\ videos' = videos
    /\ cache' = cache
    /\ \E u \in {"", "UU"} : channels' = Append(channels, NewChannel(adds[k].id, u))

\* addChannel k reaches its call of fetchChannelVideos without credential
AddCallsWithoutKey(k) ==
    /\ AddChannelLookupDone(k)
    /\ adds[k].key = ""
    /\ ~AlreadyAdded(adds[k].known, adds[k].id)

\* C15 as stated: invoked without credential, a channel orchestration and
\* a full refresh make no upstream request, return without exception, raise
\* the credential-required signal and leave the feed, the registry and the
\* persisted snapshot unchanged.
C15_NoCredentialShortCircuit ==
    [][/\ (FetchVideosStart /\ apiKey = "") => RefreshShortCircuits
       /\ \A k \in 1..MaxEvents : AddCallsWithoutKey(k) => AddShortCircuits(k)]_vars

\* C15 amended: the same, for a full refresh of a registry that holds at
\* least one channel; on an empty registry the refresh returns before it
\* looks at the credential and raises no signal.
C15_NoCredentialNonEmptyRegistry ==
    [][/\ (FetchVideosStart /\ apiKey = "" /\ Len(channels) > 0) => RefreshShortCircuits
       /\ (FetchVideosStart /\ apiKey = "" /\ Len(channels) = 0) =>
             /\ UNCHANGED <<refresh, isLoadingVideos, showSettingsDropdown>>
             /\ UNCHANGED <<videos, channels, cache>>
       /\ \A k \in 1..MaxEvents : AddCallsWithoutKey(k) => AddShortCircuits(k)]_vars

\* C15 witness: the refresh button was used without credential on a
\* registry with a channel: the signal is up, nothing is loading, and the
\* feed and the snapshot of the session are as they were.
C15_Witness ==
    /\ last = "fetchVideos"
    /\ events = 1
    /\ apiKey = ""
    /\ Len(channels) > 0
    /\ showSettingsDropdown
    /\ refresh = Idle
    /\ ~isLoadingVideos
    /\ videos = <<SavedItem>>
    /\ cache.stored /\ cache.videos = <<SavedItem>>

\* C17: add on an identifier the registry already held when add was invoked
\* fails with DuplicateChannel and leaves the registry and the feed
\* unchanged; add on a new identifier appends the channel with long-form
\* on, short-form on, community off.
C17_AddDuplicateFails ==
    [][\A k \in 1..MaxEvents :
          AddChannelLookupDone(k) =>
              IF adds[k].id \in adds[k].known
              THEN /\ AddChannelOutcome(TRUE) = "DuplicateChannel"
                   /\ channels' = channels
                   /\ videos' = videos
              ELSE /\ Len(channels') = Len(channels) + 1
                   /\ channels'[Len(channels')].id = adds[k].id
                   /\ channels'[Len(channels')].contentTypes =
                         [longForm |-> TRUE, shorts |-> TRUE, community |-> FALSE]
                   /\ \A i \in 1..Len(channels) : channels'[i] = channels[i]]_vars

\* C19: at most one full refresh is in progress: while a call of
\* fetchVideos is suspended the loading flag is up and no user event runs
\* fetchVideos again, so only that call writes the feed when it ends.
C19_OneRefreshAtATime ==
    [][/\ (refresh.pc = "running") = isLoadingVideos
       /\ (refresh'.pc = "running") = isLoadingVideos'
       /\ refresh.pc = "running" =>
             /\ ~(events' # events /\ last' = "fetchVideos")
             /\ (refresh' # refresh /\ refresh'.pc = "running") =>
                   /\ refresh'.channels = refresh.channels
                   /\ refresh'.i = refresh.i + 1]_vars

\* C19 witness: a refresh is suspended after its first channel, the button
\* is disabled, and the user can still act.
C19_Witness ==
    /\ refresh.pc = "running"
    /\ refresh.i = 2
    /\ isLoadingVideos
    /\ ~RefreshEnabled
    /\ events < MaxEvents

\* A step in which toggleWatchedVideo runs
Toggles == events' # events /\ last' = "toggleWatchedVideo"

\* C20: only toggle changes the watched set, and only in the membership of
\* the toggled id; a refresh, an add-channel merge, a removal, a preference
\* change and a reload leave it as it is, whether or not the feed still
\* carries the watched ids.
C20_WatchedIndependent ==
    [][IF Toggles
       THEN \E v \in ToggleIds :
               /\ (v \in watchedVideos') # (v \in watchedVideos)
               /\ watchedVideos' \ {v} = watchedVideos \ {v}
       ELSE watchedVideos' = watchedVideos]_vars

\* C20 witness: "w" was watched in an earlier session and "v" was toggled
\* in this one; a refresh has then emptied the feed, and both are still
\* watched.
C20_Witness ==
    /\ watchedVideos = {"v", "w"}
    /\ last = "fetchVideos"
    /\ refresh.pc = "idle"
    /\ Len(refresh.outs) = 1
    /\ videos = <<>>

\* C21: a call of toggle flips the membership of its id and of no other; two
\* calls for the same id leave the watched set as it was, whether a render
\* came between them or both were queued before the render.
C21_ToggleTwiceRestores ==
    (tgl.pc = "on" /\ tgl.queue = <<>>) =>
        /\ Len(tgl.calls) = 1 =>
              /\ (tgl.calls[1] \in tgl.watchedVideos) # (tgl.calls[1] \in tgl.initial)
              /\ tgl.watchedVideos \ {tgl.calls[1]} = tgl.initial \ {tgl.calls[1]}
        /\ (Len(tgl.calls) = 2 /\ tgl.calls[1] = tgl.calls[2]) =>
              tgl.watchedVideos = tgl.initial

\* C21 witness: "v", unwatched next to a watched "w", was toggled twice
\* before one render applied both updates, and the set is as it was.
C21_Witness ==
    /\ tgl.pc = "on"
    /\ tgl.initial = {"w"}
    /\ tgl.calls = <<"v", "v">>
    /\ tgl.queue = <<>>
    /\ tgl.renders = 1
    /\ tgl.watchedVideos = {"w"}

\* C22: the persisted capture timestamp is renewed only by a fetch that
\* changes the feed (the merge of an added channel, a full refresh): the
\* start of a session, which reads the snapshot, leaves the persisted
\* snapshot and its timestamp as they were.
C22_TimestampRenewedByFetchOnly ==
    [][Reload => cache' = cache]_vars

\* The registry reg holds the channel
Holds(reg, channelId) == \E c \in 1..Len(reg) : reg[c].id = channelId

\* C23: the items seeded by an add made while a refresh was in flight are
\* not lost: when the refresh ends, the items the feed holds of a channel
\* added to the registry since the refresh started are still in the feed.
C23_AddDuringRefreshKept ==
    [][RefreshFinishes =>
          \A i \in 1..Len(videos) :
              (Holds(channels, videos[i].channelId)
                  /\ ~Holds(refresh.channels, videos[i].channelId)) =>
                 \E j \in 1..Len(videos') : videos'[j] = videos[i]]_vars

\* C24: the items one call of fetchChannelVideos returns for a channel are
\* never more than maxVideosPerChannel.
C24_OutputWithinMax ==
    orch.pc = "returned" => Len(orch.out.items) <= orch.settings.maxVideosPerChannel

\* C25: no upstream request is in flight that was issued without a
\* credential: neither the upload-feed lookup of an add nor the calls of a
\* refresh.
C25_NoRequestWithoutCredential ==
    /\ \A k \in 1..Len(adds) : adds[k].pc = "lookup" => adds[k].key # ""
    /\ refresh.pc = "running" => refresh.key # ""

\* C26: every refresh that has started ends: the loading flag is cleared and
\* the refresh button is enabled again, whichever of its calls fail.
C26_RefreshEventuallyFinishes ==
    (refresh.pc = "running" /\ isLoadingVideos)
        ~> (refresh.pc = "idle" /\ ~isLoadingVideos /\ RefreshEnabled)

\* C26 witness: a refresh of two channels has ended though the calls for
\* both channels threw; nothing is loading and the button is enabled.
C26_Witness ==
    /\ refresh.pc = "idle"
    /\ last = "fetchVideos"
    /\ Len(refresh.outs) = 2
    /\ refresh.outs[1].threw
    /\ refresh.outs[2].threw
    /\ ~isLoadingVideos
    /\ RefreshEnabled

====
